---- MODULE Spec2Model ----
(***************************************************************************)
(* DWML document parser classes of src/index.js (DWMLLocation,             *)
(* DWMLTimeLayout, DWMLParameter and its two variants, DWMLDocument) and   *)
(* the promise chain that constructs a DWMLDocument and logs every         *)
(* parameter.                                                              *)
(*                                                                         *)
(* The parsed XML tree is the input.  It is immutable; the state that      *)
(* changes is the memo fields the getters write (this._locations,          *)
(* this._validTimes, ...), the position of the promise chain and the       *)
(* console.  An element list is the result of getElementsByTagName on the  *)
(* owning element, in document order.  A JavaScript exception is the       *)
(* outcome threw = TRUE of the getter that raises it.                      *)
(***************************************************************************)
EXTENDS Integers, Sequences, FiniteSets, TLC

VARIABLES
  xmlDoc,    \* the parsed tree handed to new DWMLDocument(xmlDoc)
  pc,        \* position of the promise chain
  heap,      \* the DWMLDocument and the objects it owns: their memo fields
  lastOp,    \* the last getter a client read, and what it returned
  console,   \* lines written by console.log in the forEach
  err        \* what console.error received in the catch

vars == <<xmlDoc, pc, heap, lastOp, console, err>>

(***************************************************************************)
(* Bounds of the input trees.                                              *)
(***************************************************************************)
MaxEls == 2

SeqsUpTo(S, n) == UNION {[1..k -> S] : k \in 0..n}

(***************************************************************************)
(* JavaScript values.                                                      *)
(***************************************************************************)
Null == "#null"
Undefined == "#undefined"
NaN == "NaN"
\* firstChild of an element that has no child node
NoChild == "#nochild"
\* the object literal {}
EmptyObj == <<>>

Truthy(v) == v \notin {Null, Undefined, ""}

Node_ELEMENT_NODE == 1
TEXT_NODE == 3

\* F applied to the value of e, with e evaluated once
Bind(e, F(_)) == CHOOSE y \in {F(x) : x \in {e}} : TRUE

Ret(v, h, ran) == [threw |-> FALSE, val |-> v, h |-> h, ran |-> ran]
Throw(h) == [threw |-> TRUE, val |-> "TypeError", h |-> h, ran |-> TRUE]

\* parseFloat on the strings the trees carry: a leading decimal literal is
\* converted, anything else is NaN
parseFloat(s) ==
  CASE s = "72.5" -> "72.5"
    [] s = "68.0" -> "68"
    [] s = "68" -> "68"
    [] s = "40.0" -> "40"
    [] s = "-105.5" -> "-105.5"
    [] s = "7 in" -> "7"
    [] OTHER -> NaN

\* parseInt on the parts of a layout key; parts[3] may be undefined
parseInt(s) ==
  CASE s = "1" -> "1"
    [] s = "2" -> "2"
    [] OTHER -> NaN

\* String.prototype.split('-') on the layout keys the trees carry
split(key) ==
  CASE key = "k-p24h-n2-1" -> <<"k", "p24h", "n2", "1">>
    [] key = "k-p12h" -> <<"k", "p12h">>
    [] OTHER -> <<key>>

\* parts[i] of a JavaScript array (0-based), undefined past its end
At(parts, i) == IF i + 1 <= Len(parts) THEN parts[i + 1] ELSE Undefined

\* moment.parseZone(s): the instant (toDate) and the zone offset of the
\* string (utcOffset, in minutes)
momentParseZone(s) ==
  CASE s = "00:00-05:00" -> [toDate |-> "05:00Z", utcOffset |-> -300]
    [] s = "05:00+00:00" -> [toDate |-> "05:00Z", utcOffset |-> 0]
    [] s = "06:00+01:00" -> [toDate |-> "05:00Z", utcOffset |-> 60]
    [] OTHER -> [toDate |-> "Invalid Date", utcOffset |-> 0]

\* the property name a value is stored under in obj[key] = ...
ToPropertyKey(k) == IF k = Null THEN "null" ELSE k

\* obj[k] = v on a plain object
Put(obj, k, v) == [x \in (DOMAIN obj) \cup {k} |-> IF x = k THEN v ELSE obj[x]]

\* obj[k] read from a plain object: 0 stands for undefined
Lookup(obj, k) == IF k \in DOMAIN obj THEN obj[k] ELSE 0

(***************************************************************************)
(* The parsed tree.  xmlDoc.dataEls is getElementsByTagName('data'); a     *)
(* data element carries its location, time-layout and parameters elements; *)
(* a leaf element (location-key, layout-key, name, value, icon-link,       *)
(* start-valid-time, end-valid-time) is the nodeValue of its first child,  *)
(* or NoChild when it is empty.  getAttribute of a missing attribute is    *)
(* the empty string.                                                       *)
(***************************************************************************)
LocationEl(keyEls, pointEls) == [keyEls |-> keyEls, pointEls |-> pointEls]

TimeLayoutEl(keyEls, startEls, endEls) ==
  [keyEls |-> keyEls, timeCoordinate |-> "local",
   startEls |-> startEls, endEls |-> endEls]

ElementNode(nodeName, type, timeLayout, units, nameEls, valueEls, iconLinkEls) ==
  [nodeType |-> Node_ELEMENT_NODE, nodeName |-> nodeName, type |-> type,
   timeLayout |-> timeLayout, units |-> units, nameEls |-> nameEls,
   valueEls |-> valueEls, iconLinkEls |-> iconLinkEls]

TextNode ==
  [nodeType |-> TEXT_NODE, nodeName |-> "#text", type |-> "",
   timeLayout |-> "", units |-> "", nameEls |-> <<>>,
   valueEls |-> <<>>, iconLinkEls |-> <<>>]

ParametersEl(applicableLocation, childNodes) ==
  [applicableLocation |-> applicableLocation, childNodes |-> childNodes]

DataEl(locationEls, timeLayoutEls, parametersEls) ==
  [locationEls |-> locationEls, timeLayoutEls |-> timeLayoutEls,
   parametersEls |-> parametersEls]

XmlDoc(dataEls) == [dataEls |-> dataEls]

(***************************************************************************)
(* The heap: the DWMLDocument (dataElement is the index of the data        *)
(* element it is bound to, 0 before construction) and the memo fields of   *)
(* the objects it owns.  A DWMLLocation or DWMLTimeLayout is named by the  *)
(* index of the element it wraps, a parameter view by its index in         *)
(* this._parameters.  A memo field holding an object is <<>> while unset   *)
(* and <<value>> once set; one holding a string is Undefined while unset.  *)
(***************************************************************************)
NoHeap ==
  [dataElement |-> 0, _locations |-> <<>>, _timeLayouts |-> <<>>,
   _parameters |-> <<>>, _locationKey |-> <<>>, _point |-> <<>>,
   _layoutKey |-> <<>>, _validTimes |-> <<>>, _name |-> <<>>]

dataElement(h) == xmlDoc.dataEls[h.dataElement]
locationEls(h) == dataElement(h).locationEls
timeLayoutEls(h) == dataElement(h).timeLayoutEls
parametersEls(h) == dataElement(h).parametersEls

\* variant of the constructor that binds the last data element
DWMLDocument_constructor_lastData(doc) ==
  IF Len(doc.dataEls) = 0
    THEN [threw |-> TRUE, val |-> "Missing data element", h |-> NoHeap]
    ELSE [threw |-> FALSE, val |-> Len(doc.dataEls),
          h |-> [NoHeap EXCEPT
                   !.dataElement = Len(doc.dataEls),
                   !._locationKey = [i \in 1..Len(doc.dataEls[Len(doc.dataEls)].locationEls) |-> Undefined],
                   !._point = [i \in 1..Len(doc.dataEls[Len(doc.dataEls)].locationEls) |-> <<>>],
                   !._layoutKey = [i \in 1..Len(doc.dataEls[Len(doc.dataEls)].timeLayoutEls) |-> Undefined],
                   !._validTimes = [i \in 1..Len(doc.dataEls[Len(doc.dataEls)].timeLayoutEls) |-> <<>>]]]

\* new DWMLDocument(xmlDoc)
DWMLDocument_constructor(doc) ==
  IF Len(doc.dataEls) = 0
    THEN [threw |-> TRUE, val |-> "Missing data element", h |-> NoHeap]
    ELSE [threw |-> FALSE, val |-> 1,
          h |-> [NoHeap EXCEPT
                   !.dataElement = 1,
                   !._locationKey = [i \in 1..Len(doc.dataEls[1].locationEls) |-> Undefined],
                   !._point = [i \in 1..Len(doc.dataEls[1].locationEls) |-> <<>>],
                   !._layoutKey = [i \in 1..Len(doc.dataEls[1].timeLayoutEls) |-> Undefined],
                   !._validTimes = [i \in 1..Len(doc.dataEls[1].timeLayoutEls) |-> <<>>]]]

(***************************************************************************)
(* DWMLLocation                                                            *)
(***************************************************************************)
\* els.length > 0 ? els[0].firstChild.nodeValue : null
\* (firstChild is null for an empty element: reading nodeValue throws)
firstElText(els) ==
  IF Len(els) > 0
    THEN IF els[1] = NoChild
           THEN [threw |-> TRUE, val |-> "TypeError"]
           ELSE [threw |-> FALSE, val |-> els[1]]
    ELSE [threw |-> FALSE, val |-> Null]

\* a string memo: if (this._x) return this._x; return (this._x = ...)
IsCachedString(memo) == Truthy(memo)

locationKey(h, i) ==
  IF IsCachedString(h._locationKey[i])
    THEN Ret(h._locationKey[i], h, FALSE)
    ELSE Bind(firstElText(locationEls(h)[i].keyEls), LAMBDA t :
           IF t.threw THEN Throw(h)
           ELSE Ret(t.val, [h EXCEPT !._locationKey[i] = t.val], TRUE))

\* variant of the point getter that never sets this._point
point_noMemo(h, i) ==
  IF h._point[i] # <<>>
    THEN Ret(h._point[i][1], h, FALSE)
    ELSE Ret(IF Len(locationEls(h)[i].pointEls) > 0
               THEN [latitude |-> parseFloat(locationEls(h)[i].pointEls[1].latitude),
                     longitude |-> parseFloat(locationEls(h)[i].pointEls[1].longitude)]
               ELSE EmptyObj, h, TRUE)

pointOf(el) ==
  IF Len(el.pointEls) > 0
    THEN [latitude |-> parseFloat(el.pointEls[1].latitude),
          longitude |-> parseFloat(el.pointEls[1].longitude)]
    ELSE EmptyObj

point(h, i) ==
  IF h._point[i] # <<>>
    THEN Ret(h._point[i][1], h, FALSE)
    ELSE Bind(pointOf(locationEls(h)[i]), LAMBDA p :
           Ret(p, [h EXCEPT !._point[i] = <<p>>], TRUE))

(***************************************************************************)
(* DWMLTimeLayout                                                          *)
(***************************************************************************)
layoutKey(h, i) ==
  IF IsCachedString(h._layoutKey[i])
    THEN Ret(h._layoutKey[i], h, FALSE)
    ELSE Bind(firstElText(timeLayoutEls(h)[i].keyEls), LAMBDA t :
           IF t.threw THEN Throw(h)
           ELSE Ret(t.val, [h EXCEPT !._layoutKey[i] = t.val], TRUE))

parsedKey(h, i) ==
  Bind(layoutKey(h, i), LAMBDA k :
    IF k.threw THEN Throw(h)
    ELSE IF Truthy(k.val)
      THEN LET parts == split(k.val)
           IN Ret([period |-> At(parts, 1), times |-> At(parts, 2),
                   seq |-> parseInt(At(parts, 3))], k.h, TRUE)
      ELSE Ret(EmptyObj, k.h, TRUE))

\* variant of the interval in which the end fields are attached whenever
\* the layout has any end-valid-time, taken from the last one if need be
validTimeObj_anyEnd(el, i) ==
  LET startMoment == momentParseZone(el.startEls[i])
      e == IF i <= Len(el.endEls) THEN i ELSE Len(el.endEls)
  IN [startDate |-> startMoment.toDate,
      startOffset |-> startMoment.utcOffset * 60,
      startString |-> el.startEls[i],
      end |-> IF Len(el.endEls) > 0
                THEN LET endMoment == momentParseZone(el.endEls[e])
                     IN <<[endDate |-> endMoment.toDate,
                           endOffset |-> endMoment.utcOffset * 60,
                           endString |-> el.endEls[e]]>>
                ELSE <<>>]

\* the object validTimeGen yields for index i (1-based here); the end
\* fields are present exactly when endEls[i] exists
validTimeObj(el, i) ==
  LET startMoment == momentParseZone(el.startEls[i])
  IN [startDate |-> startMoment.toDate,
      startOffset |-> startMoment.utcOffset * 60,
      startString |-> el.startEls[i],
      end |-> IF i <= Len(el.endEls)
                THEN LET endMoment == momentParseZone(el.endEls[i])
                     IN <<[endDate |-> endMoment.toDate,
                           endOffset |-> endMoment.utcOffset * 60,
                           endString |-> el.endEls[i]]>>
                ELSE <<>>]

\* Array.from(this.validTimeGen())
validTimeGen(el) ==
  IF \E i \in 1..Len(el.startEls) :
        \/ el.startEls[i] = NoChild
        \/ i <= Len(el.endEls) /\ el.endEls[i] = NoChild
    THEN [threw |-> TRUE, val |-> "TypeError"]
    ELSE [threw |-> FALSE,
          val |-> [i \in 1..Len(el.startEls) |-> validTimeObj(el, i)]]

validTimes(h, i) ==
  IF h._validTimes[i] # <<>>
    THEN Ret(h._validTimes[i][1], h, FALSE)
    ELSE Bind(validTimeGen(timeLayoutEls(h)[i]), LAMBDA g :
           IF g.threw THEN Throw(h)
           ELSE Ret(g.val, [h EXCEPT !._validTimes[i] = <<g.val>>], TRUE))

(***************************************************************************)
(* DWMLDocument: the registries                                            *)
(***************************************************************************)
\* variant of Put in which an existing property is kept (first one wins)
Put_keepFirst(obj, k, v) ==
  [x \in (DOMAIN obj) \cup {k} |-> IF x \in DOMAIN obj THEN obj[x] ELSE v]

\* variant of the reducer in which the first element with a key wins
reducer_keepFirst(obj, key, cur) == Put_keepFirst(obj, ToPropertyKey(key), cur)

\* (obj, cur) => { obj[cur.locationKey] = cur; return obj }
reducer(obj, key, cur) == Put(obj, ToPropertyKey(key), cur)

\* Array.from(this.locationGen()).reduce(..., {}) from object i on; the
\* objects are new, and lost when a key getter throws
RECURSIVE locationsReduce(_, _, _)
locationsReduce(h, i, obj) ==
  IF i > Len(locationEls(h)) THEN Ret(obj, h, TRUE)
  ELSE Bind(locationKey(h, i), LAMBDA k :
         IF k.threw THEN Throw(h)
         ELSE locationsReduce(k.h, i + 1, reducer(obj, k.val, i)))

\* variant of the locations getter that memoizes the registry as it is
\* before the last element is added, and returns the complete one
locations_staleMemo(h) ==
  IF h._locations # <<>>
    THEN Ret(h._locations[1], h, FALSE)
    ELSE Bind(locationsReduce(h, 1, EmptyObj), LAMBDA r :
           IF r.threw THEN Throw(h)
           ELSE Ret(r.val,
                    [r.h EXCEPT !._locations =
                       <<[k \in {x \in DOMAIN r.val : r.val[x] # Len(locationEls(h))}
                            |-> r.val[k]]>>],
                    TRUE))

locations(h) ==
  IF h._locations # <<>>
    THEN Ret(h._locations[1], h, FALSE)
    ELSE Bind(locationsReduce(h, 1, EmptyObj), LAMBDA r :
           IF r.threw THEN Throw(h)
           ELSE Ret(r.val, [r.h EXCEPT !._locations = <<r.val>>], TRUE))

RECURSIVE timeLayoutsReduce(_, _, _)
timeLayoutsReduce(h, i, obj) ==
  IF i > Len(timeLayoutEls(h)) THEN Ret(obj, h, TRUE)
  ELSE Bind(layoutKey(h, i), LAMBDA k :
         IF k.threw THEN Throw(h)
         ELSE timeLayoutsReduce(k.h, i + 1, reducer(obj, k.val, i)))

timeLayouts(h) ==
  IF h._timeLayouts # <<>>
    THEN Ret(h._timeLayouts[1], h, FALSE)
    ELSE Bind(timeLayoutsReduce(h, 1, EmptyObj), LAMBDA r :
           IF r.threw THEN Throw(h)
           ELSE Ret(r.val, [r.h EXCEPT !._timeLayouts = <<r.val>>], TRUE))

(***************************************************************************)
(* DWMLParameter and DWMLDocument.parameters                               *)
(***************************************************************************)
ELEMENT_NAME_TO_PARAMETER_CLASS ==
  ("conditions-icon" :> "DWMLConditionsIconsParameter")
  @@ ("conditions-icons" :> "DWMLConditionsIconsParameter")
  @@ ("probability-of-precipitation" :> "DWMLUnitsParameter")
  @@ ("temperature" :> "DWMLUnitsParameter")

\* variant of the resolution of a key that takes the first registry entry
\* when the key matches none
resolve_fallback(reg, key) ==
  IF key \in DOMAIN reg THEN reg[key]
  ELSE IF DOMAIN reg # {} THEN reg[CHOOSE k \in DOMAIN reg : TRUE] ELSE 0

\* dwmlDoc.locations[locationKey], dwmlDoc.timeLayouts[layoutKey]
resolve(reg, key) == Lookup(reg, key)

\* new Klass(dwmlDoc, parametersEl, parameterEl) for child j of parameters
\* element i.  A view holds the indices of the objects it resolved (0: the
\* field was never assigned, or assigned undefined).
DWMLParameter_constructor(h, i, j, Klass) ==
  LET parametersEl == parametersEls(h)[i]
      parameterEl == parametersEl.childNodes[j]
      locationKeyAttr == parametersEl.applicableLocation
      layoutKeyAttr == parameterEl.timeLayout
  IN Bind(IF Truthy(locationKeyAttr) THEN locations(h) ELSE Ret(EmptyObj, h, FALSE),
          LAMBDA l :
       IF l.threw THEN Throw(h)
       ELSE Bind(IF Truthy(layoutKeyAttr) THEN timeLayouts(l.h)
                 ELSE Ret(EmptyObj, l.h, FALSE),
                 LAMBDA t :
              IF t.threw THEN Throw(l.h)
              ELSE Ret([klass |-> Klass, pel |-> i, el |-> j,
                        locationKey |-> locationKeyAttr,
                        timeLayoutKey |-> layoutKeyAttr,
                        location |-> IF Truthy(locationKeyAttr)
                                       THEN resolve(l.val, locationKeyAttr) ELSE 0,
                        timeLayout |-> IF Truthy(layoutKeyAttr)
                                         THEN resolve(t.val, layoutKeyAttr) ELSE 0],
                       t.h, TRUE)))

\* variant of the dispatch test that yields a numeric view for a tag the
\* table does not hold
dispatch_default(nd) ==
  IF nd.nodeType = Node_ELEMENT_NODE
    THEN IF nd.nodeName \in DOMAIN ELEMENT_NAME_TO_PARAMETER_CLASS
           THEN ELEMENT_NAME_TO_PARAMETER_CLASS[nd.nodeName]
           ELSE "DWMLUnitsParameter"
    ELSE Undefined

\* the class parameterGen constructs for a child node, Undefined for none
dispatch(nd) ==
  IF nd.nodeType = Node_ELEMENT_NODE
    THEN IF nd.nodeName \in DOMAIN ELEMENT_NAME_TO_PARAMETER_CLASS
           THEN ELEMENT_NAME_TO_PARAMETER_CLASS[nd.nodeName]
           ELSE Undefined
    ELSE Undefined

\* Array.from(this.parameterGen()) from child j of parameters element i on;
\* acc holds the views yielded so far.  A registry memoized on the way
\* stays memoized when a later construction throws.
RECURSIVE parameterGen(_, _, _, _)
parameterGen(h, i, j, acc) ==
  IF i > Len(parametersEls(h)) THEN Ret(acc, h, TRUE)
  ELSE IF j > Len(parametersEls(h)[i].childNodes) THEN parameterGen(h, i + 1, 1, acc)
  ELSE Bind(dispatch(parametersEls(h)[i].childNodes[j]), LAMBDA Klass :
         IF Klass = Undefined THEN parameterGen(h, i, j + 1, acc)
         ELSE Bind(DWMLParameter_constructor(h, i, j, Klass), LAMBDA v :
                IF v.threw THEN Throw(v.h)
                ELSE parameterGen(v.h, i, j + 1, Append(acc, v.val))))

parameters(h) ==
  IF h._parameters # <<>>
    THEN Ret(h._parameters[1], h, FALSE)
    ELSE Bind(parameterGen(h, 1, 1, <<>>), LAMBDA r :
           IF r.threw THEN Throw(r.h)
           ELSE Ret(r.val,
                    [r.h EXCEPT !._parameters = <<r.val>>,
                                !._name = [n \in 1..Len(r.val) |-> Undefined]],
                    TRUE))

\* the element a view wraps
elementOf(h, view) == parametersEls(h)[view.pel].childNodes[view.el]

elementName(h, view) == elementOf(h, view).nodeName
type(h, view) == elementOf(h, view).type
\* DWMLConditionsIconsParameter has no units getter
units(h, view) ==
  IF view.klass = "DWMLUnitsParameter" THEN elementOf(h, view).units ELSE Undefined

name(h, n) ==
  IF IsCachedString(h._name[n])
    THEN Ret(h._name[n], h, FALSE)
    ELSE Bind(firstElText(elementOf(h, h._parameters[1][n]).nameEls), LAMBDA t :
           IF t.threw THEN Throw(h)
           ELSE Ret(t.val, [h EXCEPT !._name[n] = t.val], TRUE))

(***************************************************************************)
(* DWMLConditionsIconsParameter and DWMLUnitsParameter                     *)
(***************************************************************************)
\* Array.from(this.iconLinkGen())
iconLinkGen(el) ==
  IF \E i \in 1..Len(el.iconLinkEls) : el.iconLinkEls[i] = NoChild
    THEN [threw |-> TRUE, val |-> "TypeError"]
    ELSE [threw |-> FALSE, val |-> el.iconLinkEls]

\* Array.from(this.valueGen())
valueGen(el) ==
  IF \E i \in 1..Len(el.valueEls) : el.valueEls[i] = NoChild
    THEN [threw |-> TRUE, val |-> "TypeError"]
    ELSE [threw |-> FALSE,
          val |-> [i \in 1..Len(el.valueEls) |-> parseFloat(el.valueEls[i])]]

\* the raw sequence of a view: iconLinks or values (neither is memoized)
rawGen(h, view) ==
  IF view.klass = "DWMLUnitsParameter"
    THEN valueGen(elementOf(h, view))
    ELSE iconLinkGen(elementOf(h, view))

raw(h, n) ==
  Bind(rawGen(h, h._parameters[1][n]), LAMBDA g :
    IF g.threw THEN Throw(h) ELSE Ret(g.val, h, TRUE))

\* { time: validTime, value: value } or { time: validTime, url: iconLink }
entry(klass, validTime, x) ==
  IF klass = "DWMLUnitsParameter"
    THEN [time |-> validTime, value |-> x]
    ELSE [time |-> validTime, url |-> x]

\* variant of the pairing loop that reads validTimes[++i]
RECURSIVE pairing_preIncrement(_, _, _, _, _)
pairing_preIncrement(klass, rawSeq, vts, i, acc) ==
  IF i > Len(rawSeq) THEN acc
  ELSE IF i + 1 <= Len(vts)
    THEN pairing_preIncrement(klass, rawSeq, vts, i + 1,
                              Append(acc, entry(klass, vts[i + 1], rawSeq[i])))
    ELSE pairing_preIncrement(klass, rawSeq, vts, i + 1, acc)

\* for (const x of gen) { const validTime = validTimes[i++];
\*                        if (validTime) yield {...} }
RECURSIVE pairing(_, _, _, _, _)
pairing(klass, rawSeq, vts, i, acc) ==
  IF i > Len(rawSeq) THEN acc
  ELSE IF i <= Len(vts)
    THEN pairing(klass, rawSeq, vts, i + 1, Append(acc, entry(klass, vts[i], rawSeq[i])))
    ELSE pairing(klass, rawSeq, vts, i + 1, acc)

\* Array.from(this.seriesGen()) (not memoized)
series(h, n) ==
  LET view == h._parameters[1][n]
  IN IF view.timeLayout = 0 THEN Ret(<<>>, h, TRUE)
     ELSE Bind(validTimes(h, view.timeLayout), LAMBDA vt :
            IF vt.threw THEN Throw(h)
            ELSE Bind(rawGen(vt.h, view), LAMBDA g :
                   IF g.threw THEN Throw(vt.h)
                   ELSE Ret(pairing(view.klass, g.val, vt.val, 1, <<>>), vt.h, TRUE)))

(***************************************************************************)
(* The input trees.  The full product of every element list is far too     *)
(* large, so the trees are the union of families; each family varies one   *)
(* part of the tree over every list of at most MaxEls elements and keeps   *)
(* the rest small.                                                         *)
(***************************************************************************)
K1 == "k-p24h-n2-1"
K2 == "k-p12h"

Point1 == <<[latitude |-> "40.0", longitude |-> "-105.5"]>>
TimeTexts == {"00:00-05:00", "06:00+01:00"}
ValueTexts == {"72.5", "68.0", "n/a"}

Temperature(timeLayout, valueEls) ==
  ElementNode("temperature", "maximum", timeLayout, "Fahrenheit",
              <<"Temp">>, valueEls, <<>>)
Pop(timeLayout, valueEls) ==
  ElementNode("probability-of-precipitation", "12 hour", timeLayout, "percent",
              <<NoChild>>, valueEls, <<>>)
Icon(nodeName, timeLayout, iconLinkEls) ==
  ElementNode(nodeName, "forecast-NWS", timeLayout, "", <<>>, <<>>, iconLinkEls)
Hazard ==
  ElementNode("hazard-conditions", "", K1, "", <<"Hazards">>, <<"68">>, <<>>)

OneLocation == <<LocationEl(<<"point1">>, <<[latitude |-> "68", longitude |-> ""]>>)>>
OneLayout == <<TimeLayoutEl(<<K1>>, <<"00:00-05:00">>, <<"06:00+01:00">>)>>

\* locations vary; one numeric parameter refers to location point1
LocationEls ==
  {LocationEl(<<>>, <<>>), LocationEl(<<NoChild>>, Point1),
   LocationEl(<<"point1">>, Point1), LocationEl(<<"point1">>, <<>>),
   LocationEl(<<"point2">>, Point1), LocationEl(<<"point2", "point1">>, <<>>)}
DocsLocations ==
  {XmlDoc(<<DataEl(ls, <<>>,
                   <<ParametersEl("point1", <<Temperature("", <<"7 in">>)>>)>>)>>) :
     ls \in SeqsUpTo(LocationEls, MaxEls)}

\* time layouts vary in their keys; one numeric parameter refers to K1
TimeLayoutElsSmall ==
  {TimeLayoutEl(<<>>, <<>>, <<>>),
   TimeLayoutEl(<<NoChild>>, <<"00:00-05:00">>, <<>>),
   TimeLayoutEl(<<K1>>, <<>>, <<>>),
   TimeLayoutEl(<<K1>>, <<"00:00-05:00">>, <<"06:00+01:00">>),
   TimeLayoutEl(<<K2>>, <<"06:00+01:00">>, <<>>)}
DocsTimeLayouts ==
  {XmlDoc(<<DataEl(<<>>, ts, <<ParametersEl("", <<Temperature(K1, <<"72.5">>)>>)>>)>>) :
     ts \in SeqsUpTo(TimeLayoutElsSmall, MaxEls)}

\* the start and end times of one layout vary
StartEndEls ==
  {<<st, en>> : st \in SeqsUpTo(TimeTexts, MaxEls),
                en \in SeqsUpTo(TimeTexts \cup {NoChild}, MaxEls)}
  \cup {<<st, <<>> >> : st \in SeqsUpTo(TimeTexts \cup {NoChild}, MaxEls)}
DocsValidTimes ==
  {XmlDoc(<<DataEl(<<>>, <<TimeLayoutEl(<<K1>>, se[1], se[2])>>,
                   <<ParametersEl("", <<Temperature(K1, <<"72.5", "68.0">>)>>)>>)>>) :
     se \in StartEndEls}

\* the raw values of one parameter vary against the length of its layout
SeriesNodes ==
  {Temperature(K1, v) : v \in SeqsUpTo(ValueTexts \cup {NoChild}, MaxEls)}
  \cup {Icon("conditions-icons", K1, v) : v \in SeqsUpTo({"a.png", NoChild}, MaxEls)}
  \cup {Temperature(K2, <<"72.5">>), Icon("conditions-icons", "", <<"a.png">>)}
DocsSeries ==
  {XmlDoc(<<DataEl(OneLocation, <<TimeLayoutEl(<<K1>>, st, <<>>)>>,
                   <<ParametersEl("point1", <<nd>>)>>)>>) :
     st \in SeqsUpTo({"00:00-05:00"}, MaxEls), nd \in SeriesNodes}

\* the children of one parameters element vary
ChildNodes ==
  {TextNode, Temperature(K1, <<"72.5">>), Pop(K2, <<"n/a">>),
   Icon("conditions-icon", K1, <<"a.png">>), Hazard}
DocsChildNodes ==
  {XmlDoc(<<DataEl(OneLocation, OneLayout, <<ParametersEl("point1", cs)>>)>>) :
     cs \in SeqsUpTo(ChildNodes, MaxEls)}

\* the parameters elements vary
ParametersElsSmall ==
  {ParametersEl("point1", <<>>),
   ParametersEl("point1", <<Temperature(K1, <<"72.5">>)>>),
   ParametersEl("point9", <<Temperature(K1, <<"68.0">>)>>),
   ParametersEl("point9", <<Hazard, Icon("conditions-icons", K1, <<"a.png">>)>>)}
DocsParametersEls ==
  {XmlDoc(<<DataEl(OneLocation, OneLayout, ps)>>) :
     ps \in SeqsUpTo(ParametersElsSmall, MaxEls)}

\* the data elements vary, none included
DataElsSmall ==
  {DataEl(ls, OneLayout, <<ParametersEl("point1", <<Temperature(K1, <<"72.5">>)>>)>>) :
     ls \in {<<>>, OneLocation,
             <<LocationEl(<<"point1">>, <<>>)>>,
             <<LocationEl(<<"point2">>, <<>>)>>}}
DocsData == {XmlDoc(ds) : ds \in SeqsUpTo(DataElsSmall, MaxEls)}

Docs ==
  DocsLocations \cup DocsTimeLayouts \cup DocsValidTimes \cup DocsSeries
  \cup DocsChildNodes \cup DocsParametersEls \cup DocsData

(***************************************************************************)
(* The state machine.  The promise chain parses the input, constructs the  *)
(* DWMLDocument and logs every parameter.  A client that holds a           *)
(* constructed DWMLDocument instead may read any getter of any object it   *)
(* can reach, in any order.                                                *)
(***************************************************************************)
At_(at, k) == [at |-> at, k |-> k]

NoOp ==
  [prop |-> "none", obj |-> 0, threw |-> FALSE, ran |-> FALSE,
   cachedBefore |-> FALSE, repeat |-> FALSE, val |-> Undefined]

Init ==
  /\ xmlDoc \in Docs
  /\ pc = At_("parsed", 0)
  /\ heap = NoHeap
  /\ lastOp = NoOp
  /\ console = <<>>
  /\ err = ""

\* const dwml = new DWMLDocument(xmlDoc)
Construct ==
  /\ pc.at = "parsed"
  /\ \E r \in {DWMLDocument_constructor(xmlDoc)} :
        /\ heap' = r.h
        /\ pc' = IF r.threw THEN At_("caught", 0) ELSE At_("ready", 0)
        /\ err' = IF r.threw THEN r.val ELSE err
  /\ UNCHANGED <<xmlDoc, lastOp, console>>

\* a client reads getter prop of object obj; r is what the getter did
Read(prop, obj, res, cachedBefore) ==
  \E r \in {res} :
    /\ heap' = r.h
    /\ lastOp' = [prop |-> prop, obj |-> obj, threw |-> r.threw, ran |-> r.ran,
                  cachedBefore |-> cachedBefore,
                  repeat |-> /\ lastOp.prop = prop /\ lastOp.obj = obj
                             /\ lastOp.ran /\ ~lastOp.threw
                             /\ r.ran /\ ~r.threw,
                  val |-> r.val]
    /\ UNCHANGED <<xmlDoc, pc, console, err>>

ReadLocations ==
  /\ pc.at = "ready"
  /\ Read("locations", 0, locations(heap), heap._locations # <<>>)

ReadTimeLayouts ==
  /\ pc.at = "ready"
  /\ Read("timeLayouts", 0, timeLayouts(heap), heap._timeLayouts # <<>>)

ReadParameters ==
  /\ pc.at = "ready"
  /\ Read("parameters", 0, parameters(heap), heap._parameters # <<>>)

\* the objects a client can reach: the registry entries (a parameter's
\* location and timeLayout are among them) and the parameter views
Range(f) == {f[x] : x \in DOMAIN f}
LocationObjs == IF heap._locations = <<>> THEN {} ELSE Range(heap._locations[1])
TimeLayoutObjs == IF heap._timeLayouts = <<>> THEN {} ELSE Range(heap._timeLayouts[1])
ParameterObjs == IF heap._parameters = <<>> THEN {} ELSE 1..Len(heap._parameters[1])

ReadLocationKey ==
  /\ pc.at = "ready"
  /\ \E i \in LocationObjs :
       Read("locationKey", i, locationKey(heap, i), IsCachedString(heap._locationKey[i]))

ReadPoint ==
  /\ pc.at = "ready"
  /\ \E i \in LocationObjs : Read("point", i, point(heap, i), heap._point[i] # <<>>)

ReadLayoutKey ==
  /\ pc.at = "ready"
  /\ \E i \in TimeLayoutObjs :
       Read("layoutKey", i, layoutKey(heap, i), IsCachedString(heap._layoutKey[i]))

ReadParsedKey ==
  /\ pc.at = "ready"
  /\ \E i \in TimeLayoutObjs : Read("parsedKey", i, parsedKey(heap, i), FALSE)

ReadValidTimes ==
  /\ pc.at = "ready"
  /\ \E i \in TimeLayoutObjs :
       Read("validTimes", i, validTimes(heap, i), heap._validTimes[i] # <<>>)

ReadName ==
  /\ pc.at = "ready"
  /\ \E n \in ParameterObjs : Read("name", n, name(heap, n), IsCachedString(heap._name[n]))

\* iconLinks or values
ReadRaw ==
  /\ pc.at = "ready"
  /\ \E n \in ParameterObjs : Read("raw", n, raw(heap, n), FALSE)

ReadSeries ==
  /\ pc.at = "ready"
  /\ \E n \in ParameterObjs : Read("series", n, series(heap, n), FALSE)

(***************************************************************************)
(* The promise chain: dwml.parameters.forEach(parameter => {...}) and the  *)
(* catch.                                                                  *)
(***************************************************************************)
Line(k, no, args) == [param |-> k, line |-> no, args |-> args]

Out(threw, lines, h) == [threw |-> threw, lines |-> lines, h |-> h]

\* the callback of the forEach for parameter k: four console.log calls.
\* Reading a property of an undefined timeLayout or location throws.
callback(h, k) ==
  LET view == h._parameters[1][k]
  IN Bind(name(h, k), LAMBDA nm :
       IF nm.threw THEN Out(TRUE, <<>>, nm.h)
       ELSE
         LET l1 == <<Line(k, 1, <<elementName(h, view), nm.val, type(h, view),
                                  units(h, view)>>)>>
         IN IF view.timeLayout = 0 THEN Out(TRUE, l1, nm.h)
            ELSE Bind(parsedKey(nm.h, view.timeLayout), LAMBDA pk :
              IF pk.threw THEN Out(TRUE, l1, pk.h)
              ELSE
                LET l2 == Append(l1, Line(k, 2, <<pk.val>>))
                IN IF view.location = 0 THEN Out(TRUE, l2, pk.h)
                   ELSE Bind(point(pk.h, view.location), LAMBDA pt :
                     Bind(series(pt.h, k), LAMBDA sr :
                       LET l3 == Append(l2, Line(k, 3, <<pt.val>>))
                       IN IF sr.threw THEN Out(TRUE, l3, sr.h)
                          ELSE Out(FALSE, Append(l3, Line(k, 4, <<sr.val>>)), sr.h)))))

\* dwml.parameters is evaluated, and the forEach starts
ForEachBegin ==
  /\ pc.at = "ready"
  /\ lastOp.prop = "none"
  /\ \E r \in {parameters(heap)} :
        /\ heap' = r.h
        /\ pc' = IF r.threw THEN At_("caught", 0)
                 ELSE IF Len(r.val) = 0 THEN At_("done", 0)
                 ELSE At_("forEach", 1)
        /\ err' = IF r.threw THEN r.val ELSE err
  /\ UNCHANGED <<xmlDoc, lastOp, console>>

\* one call of the callback; an exception ends the forEach in the catch
ForEachStep ==
  /\ pc.at = "forEach"
  /\ \E o \in {callback(heap, pc.k)} :
        /\ heap' = o.h
        /\ console' = console \o o.lines
        /\ pc' = IF o.threw THEN At_("caught", pc.k)
                 ELSE IF pc.k = Len(heap._parameters[1]) THEN At_("done", pc.k)
                 ELSE At_("forEach", pc.k + 1)
        /\ err' = IF o.threw THEN "TypeError" ELSE err
  /\ UNCHANGED <<xmlDoc, lastOp>>

Next ==
  \/ Construct
  \/ ReadLocations
  \/ ReadTimeLayouts
  \/ ReadParameters
  \/ ReadLocationKey
  \/ ReadPoint
  \/ ReadLayoutKey
  \/ ReadParsedKey
  \/ ReadValidTimes
  \/ ReadName
  \/ ReadRaw
  \/ ReadSeries
  \/ ForEachBegin
  \/ ForEachStep

Spec == Init /\ [][Next]_vars

(***************************************************************************)
(* Properties.                                                             *)
(***************************************************************************)
Min(a, b) == IF a <= b THEN a ELSE b
Returned(prop) == lastOp.prop = prop /\ ~lastOp.threw
LastView == heap._parameters[1][lastOp.obj]

\* C1: once new DWMLDocument(xmlDoc) has run, a tree without a data element
\* has ended in the catch with "Missing data element" and no document
\* exists; a tree with data elements has a document bound to the first one.
C1_FirstDataElement ==
  pc.at # "parsed" =>
    IF Len(xmlDoc.dataEls) = 0
      THEN pc.at = "caught" /\ err = "Missing data element" /\ heap = NoHeap
      ELSE heap.dataElement = 1 /\ err # "Missing data element"

C1_Witness ==
  /\ pc.at = "ready"
  /\ Len(xmlDoc.dataEls) >= 2
  /\ xmlDoc.dataEls[1] # xmlDoc.dataEls[2]

\* C2: a series read of a parameter whose time layout is resolved throws
\* exactly when its raw sequence or the layout's validTimes throws, and
\* otherwise is the index-wise zip of the raw sequence with validTimes, cut
\* to the shorter of the two.
C2_SeriesZip ==
  (lastOp.prop = "series" /\ LastView.timeLayout # 0) =>
    LET vt == validTimes(heap, LastView.timeLayout)
        rw == rawGen(heap, LastView)
    IN IF vt.threw \/ rw.threw THEN lastOp.threw
       ELSE /\ ~lastOp.threw
            /\ Len(lastOp.val) = Min(Len(rw.val), Len(vt.val))
            /\ \A i \in 1..Len(lastOp.val) :
                 /\ lastOp.val[i].time = vt.val[i]
                 /\ IF LastView.klass = "DWMLUnitsParameter"
                      THEN lastOp.val[i].value = rw.val[i]
                      ELSE lastOp.val[i].url = rw.val[i]

C2_Witness ==
  /\ Returned("series")
  /\ LastView.timeLayout # 0
  /\ Len(lastOp.val) >= 1
  /\ Len(rawGen(heap, LastView).val) > Len(lastOp.val)

\* C3: a registry that locations() or timeLayouts() returns holds one entry
\* for each distinct key its elements are filed under, and the entry of a
\* key is the last element, in document order, with that key.
FiledUnder(el) == ToPropertyKey(firstElText(el.keyEls).val)
LastWins(els, reg) ==
  /\ DOMAIN reg = {FiledUnder(els[i]) : i \in 1..Len(els)}
  /\ \A k \in DOMAIN reg :
       /\ reg[k] \in 1..Len(els)
       /\ FiledUnder(els[reg[k]]) = k
       /\ \A j \in 1..Len(els) : FiledUnder(els[j]) = k => j <= reg[k]
Memoized ==
  {"locations", "timeLayouts", "parameters", "locationKey", "point",
   "layoutKey", "validTimes", "name"}

\* Whether the memo field of getter prop of object obj holds a value that
\* the getter returns without computing.
MemoSet(h, prop, obj) ==
  CASE prop = "locations" -> h._locations # <<>>
    [] prop = "timeLayouts" -> h._timeLayouts # <<>>
    [] prop = "parameters" -> h._parameters # <<>>
    [] prop = "locationKey" -> Truthy(h._locationKey[obj])
    [] prop = "point" -> h._point[obj] # <<>>
    [] prop = "layoutKey" -> Truthy(h._layoutKey[obj])
    [] prop = "validTimes" -> h._validTimes[obj] # <<>>
    [] prop = "name" -> Truthy(h._name[obj])
    [] OTHER -> FALSE

\* The getter read again with its own memo field emptied: the value the
\* underlying computation gives from the tree.
Recomputed(h, prop, obj) ==
  CASE prop = "locations" ->
         locations([h EXCEPT !._locations = <<>>,
                             !._locationKey = [i \in DOMAIN h._locationKey |-> Undefined]])
    [] prop = "timeLayouts" ->
         timeLayouts([h EXCEPT !._timeLayouts = <<>>,
                               !._layoutKey = [i \in DOMAIN h._layoutKey |-> Undefined]])
    [] prop = "parameters" -> parameters([h EXCEPT !._parameters = <<>>])
    [] prop = "locationKey" -> locationKey([h EXCEPT !._locationKey[obj] = Undefined], obj)
    [] prop = "point" -> point([h EXCEPT !._point[obj] = <<>>], obj)
    [] prop = "layoutKey" -> layoutKey([h EXCEPT !._layoutKey[obj] = Undefined], obj)
    [] prop = "parsedKey" -> parsedKey([h EXCEPT !._layoutKey[obj] = Undefined], obj)
    [] prop = "validTimes" -> validTimes([h EXCEPT !._validTimes[obj] = <<>>], obj)
    [] prop = "name" -> name([h EXCEPT !._name[obj] = Undefined], obj)
    [] prop = "raw" -> raw(h, obj)
    [] prop = "series" ->
         series(IF h._parameters[1][obj].timeLayout = 0 THEN h
                ELSE [h EXCEPT !._validTimes[h._parameters[1][obj].timeLayout] = <<>>], obj)

\* Whether a read of getter prop returned null.
ReturnedNull(prop, val) == prop \in {"locationKey", "layoutKey", "name"} /\ val = Null

C6_Idempotent ==
  /\ [](/\ Returned("locations") => heap._locations = <<lastOp.val>>
        /\ Returned("timeLayouts") => heap._timeLayouts = <<lastOp.val>>
        /\ Returned("point") => heap._point[lastOp.obj] = <<lastOp.val>>
        /\ Returned("validTimes") => heap._validTimes[lastOp.obj] = <<lastOp.val>>)
  /\ [][/\ xmlDoc' = xmlDoc
        /\ heap._locations # <<>> => heap'._locations = heap._locations
        /\ heap._timeLayouts # <<>> => heap'._timeLayouts = heap._timeLayouts
        /\ \A i \in DOMAIN heap._point :
             heap._point[i] # <<>> => heap'._point[i] = heap._point[i]
        /\ \A i \in DOMAIN heap._validTimes :
             heap._validTimes[i] # <<>> => heap'._validTimes[i] = heap._validTimes[i]]_vars

C6_Witness ==
  /\ Returned("locations")
  /\ lastOp.cachedBefore
  /\ Cardinality(DOMAIN lastOp.val) >= 2
  /\ \E i \in DOMAIN heap._point : heap._point[i] # <<>>

\* C7: the views parameters() returns are, in document order, exactly the
\* element children of the parameters elements whose tag is in
\* ELEMENT_NAME_TO_PARAMETER_CLASS, each of the class the table gives; the
\* list is the one kept in the memo field.
MappedChildren(h) ==
  {ij \in UNION {{<<i, j>> : j \in 1..Len(parametersEls(h)[i].childNodes)} :
                   i \in 1..Len(parametersEls(h))} :
     /\ parametersEls(h)[ij[1]].childNodes[ij[2]].nodeType = Node_ELEMENT_NODE
     /\ parametersEls(h)[ij[1]].childNodes[ij[2]].nodeName
          \in DOMAIN ELEMENT_NAME_TO_PARAMETER_CLASS}
C8_ValidTimes ==
  Returned("validTimes") =>
    LET el == timeLayoutEls(heap)[lastOp.obj]
    IN /\ Len(lastOp.val) = Len(el.startEls)
       /\ \A i \in 1..Len(lastOp.val) :
            /\ lastOp.val[i].startString = el.startEls[i]
            /\ lastOp.val[i].startDate = momentParseZone(el.startEls[i]).toDate
            /\ (lastOp.val[i].end # <<>>) <=> (i <= Len(el.endEls))
            /\ i <= Len(el.endEls) =>
                 /\ lastOp.val[i].end[1].endString = el.endEls[i]
                 /\ lastOp.val[i].end[1].endDate = momentParseZone(el.endEls[i]).toDate

C8_Witness ==
  /\ Returned("validTimes")
  /\ Len(lastOp.val) = 2
  /\ lastOp.val[1].end # <<>>
  /\ lastOp.val[2].end = <<>>

\* C9: values() of a numeric parameter returns one entry per value child,
\* in document order, NaN for a text that is no number, and neither
\* values() nor series() throws because of a value child.
C9_ValuesNeverThrow ==
  /\ (lastOp.prop = "raw" /\ LastView.klass = "DWMLUnitsParameter") =>
       /\ ~lastOp.threw
       /\ Len(lastOp.val) = Len(elementOf(heap, LastView).valueEls)
       /\ \A i \in 1..Len(lastOp.val) :
            lastOp.val[i] = parseFloat(elementOf(heap, LastView).valueEls[i])
  /\ (lastOp.prop = "series" /\ LastView.klass = "DWMLUnitsParameter"
        /\ (LastView.timeLayout = 0 \/ ~validTimes(heap, LastView.timeLayout).threw)) =>
       ~lastOp.threw

\* C10: when the promise chain has ended on a tree without empty elements,
\* every parameter has its first line on the console, and every parameter
\* whose location and time layout are resolved has all four: a parameter
\* with an unresolved reference does not stop the ones after it.
LeafOk(els) == \A i \in 1..Len(els) : els[i] # NoChild
NoEmptyElement(d) ==
  /\ \A i \in 1..Len(d.locationEls) : LeafOk(d.locationEls[i].keyEls)
  /\ \A i \in 1..Len(d.timeLayoutEls) :
       /\ LeafOk(d.timeLayoutEls[i].keyEls)
       /\ LeafOk(d.timeLayoutEls[i].startEls)
       /\ LeafOk(d.timeLayoutEls[i].endEls)
  /\ \A i \in 1..Len(d.parametersEls) :
       \A j \in 1..Len(d.parametersEls[i].childNodes) :
         /\ LeafOk(d.parametersEls[i].childNodes[j].nameEls)
         /\ LeafOk(d.parametersEls[i].childNodes[j].valueEls)
         /\ LeafOk(d.parametersEls[i].childNodes[j].iconLinkEls)
Logged(k, no) == \E x \in 1..Len(console) : console[x].param = k /\ console[x].line = no
C10_EveryParameterEmitted ==
  (pc.at \in {"done", "caught"} /\ heap._parameters # <<>>
     /\ NoEmptyElement(dataElement(heap))) =>
    \A k \in 1..Len(heap._parameters[1]) :
      /\ Logged(k, 1)
      /\ (heap._parameters[1][k].location # 0 /\ heap._parameters[1][k].timeLayout # 0) =>
           Logged(k, 2) /\ Logged(k, 3) /\ Logged(k, 4)

====
